---- MODULE Spec2Model ----
(***************************************************************************)
(* Room session state machine of the scrum-pointing backend                *)
(* (src/index.js, the 30-minute grace period server).                      *)
(*                                                                         *)
(* One action per socket.io handler and per timer callback.  Node runs     *)
(* each handler to completion, so every handler is one atomic step.        *)
(* Room objects are heap objects: the registry `rooms` maps a room id to   *)
(* an object id, and a grace timer keeps the object it captured at         *)
(* disconnect time even after the registry has dropped it.                 *)
(***************************************************************************)
EXTENDS Integers, Sequences, FiniteSets, TLC

\* ------------------------------------------------------------------ bounds
MaxSockets == 2

\* typing timers that may be pending at once
MaxTyping == 2

\* --------------------------------------------------------- input alphabets
Sockets   == 1..MaxSockets
Nicknames == {"N", "M"}
RoomIds   == {"r1", "r2"}
Roles     == {"Developer", "Scrum Master"}
Avatars   == {"av"}
Emojis    == {"e1"}
Devices   == {"mobile"}
Points    == {"5"}
Titles    == {"t"}

\* the rooms and roles the clients of each specification use
CoreRooms    == {"r1"}
SessionRoles == {"Developer"}
Profiles     == {<<"N", "Developer">>, <<"M", "Developer">>, <<"M", "Scrum Master">>}

Null   == "null"          \* JS null / undefined closure variable
NoObj  == 0               \* rooms[id] is undefined
ObjIds == 1..(MaxSockets + MaxTyping + Cardinality(RoomIds))

VARIABLES
  status,        \* socket -> "unborn" | "live" | "dead"
  nickname,      \* socket -> closure variable `nickname` (= socket.nickname)
  currentRoom,   \* socket -> closure variable `currentRoom`
  srooms,        \* socket -> socket.rooms (room ids the socket is subscribed to)
  timer,         \* socket -> state of the grace timer its disconnect armed
  timerObj,      \* socket -> room object captured by that timer (`roomObj`)
  queue,         \* pending grace timers in arming order (equal delays fire FIFO)
  tqueue,        \* pending typing timers in arming order: [sock, obj, by, room],
                 \* the socket and room object of the closure, and (history)
                 \* the nickname and room id the socket had when it armed it
  rooms,         \* room id -> object id, NoObj when absent from the registry
  objs,          \* object id -> room record, for the objects still referenced
  out,           \* messages emitted by the last handler, in order
  last,          \* the last handler or callback run: [op, sock]
  rejoined       \* history: pending timers whose nickname has joined their room
                 \* again since the disconnect that armed them

vars == <<status, nickname, currentRoom, srooms, timer, timerObj, queue, tqueue,
          rooms, objs, out, last, rejoined>>

\* ------------------------------------------------------------ JS objects
EmptyMap == <<>>

Put(m, k, v) == [x \in (DOMAIN m) \cup {k} |-> IF x = k THEN v ELSE m[x]]

Del(m, k) == [x \in (DOMAIN m) \ {k} |-> m[x]]

Has(m, k) == k \in DOMAIN m

Without(seq, n) == SelectSeq(seq, LAMBDA p : p # n)

Includes(seq, n) == \E i \in 1..Len(seq) : seq[i] = n

Elems(seq) == {seq[i] : i \in 1..Len(seq)}

\* faulty variant: the new participant is put first
Push_Front(seq, n) == <<n>> \o seq

\* participants.push(n)
Push(seq, n) == Append(seq, n)

\* faulty variant: the keys of the old votes map are kept
ResetVotes_KeepsKeys(r) == [p \in Elems(r.participants) \cup DOMAIN r.votes |-> Null]

\* votes = {}; participants.forEach(p => (votes[p] = null))
ResetVotes(r) == [p \in Elems(r.participants) |-> Null]

\* faulty variant: every socket ever connected counts as connected
ConnectedNicknames_AllSockets(st, sr, nk, room) ==
  SelectSeq([i \in DOMAIN nk |-> nk[i]], LAMBDA n : n # Null)

\* faulty variant: the story is kept
ClearSession_KeepsStory(r) == [r EXCEPT !.votes = EmptyMap]

\* votes = {}; currentStory = ''
ClearSession(r) == [r EXCEPT !.votes = EmptyMap, !.currentStory = ""]

NewRoom ==
  [participants |-> <<>>, roles |-> EmptyMap, avatars |-> EmptyMap,
   moods |-> EmptyMap, votes |-> EmptyMap, typing |-> <<>>,
   currentStory |-> "", disconnectTimers |-> EmptyMap, devices |-> EmptyMap]

\* `new object`: the lowest object id not in use
NewId == CHOOSE o \in ObjIds \ DOMAIN objs :
           \A p \in ObjIds \ DOMAIN objs : o <= p

\* Objects that are neither registered nor captured by a pending timer are
\* unreachable and dropped.
ReachableFrom(rms, tm, tobj, tq) ==
  {rms[r] : r \in RoomIds}
    \cup {tobj[s] : s \in {x \in Sockets : tm[x] = "pending"}}
    \cup {tq[i].obj : i \in 1..Len(tq)}

Reachable(rms, tm, tobj) == ReachableFrom(rms, tm, tobj, tqueue)

Collect(os, rms, tm, tobj) ==
  [o \in (DOMAIN os) \cap Reachable(rms, tm, tobj) |-> os[o]]

\* faulty variant: the handle is never cleared
ClearTimeout_Forgotten(tm, h) == tm

\* clearTimeout(handle): a pending timer is cancelled, a fired one is untouched
ClearTimeout(tm, h) == [tm EXCEPT ![h] = IF @ = "pending" THEN "cancelled" ELSE @]

Dequeue(q, h) == SelectSeq(q, LAMBDA x : x # h)

\* The closure of a closed socket is reachable only from its pending grace
\* timer: once that timer has fired or been cleared (or was never armed) the
\* closure variables are garbage and are reset.
ClosureFrom(v, st, tm, tq, none) ==
  [s \in Sockets |->
     IF st[s] = "dead" /\ tm[s] # "pending" /\ \A i \in 1..Len(tq) : tq[i].sock # s
       THEN none ELSE v[s]]

Closure(v, st, tm, none) == ClosureFrom(v, st, tm, tqueue, none)

\* the pending timers among hs
Pending(hs, tm) == {h \in hs : tm[h] = "pending"}

\* ------------------------------------------------------------- presence
SocketList == [i \in 1..MaxSockets |-> i]

\* [...io.sockets.sockets.values()].filter(s => s.rooms.has(room))
SocketsIn(st, sr, room) ==
  SelectSeq(SocketList, LAMBDA s : st[s] = "live" /\ room \in sr[s])

\* ....map(s => s.nickname)
ConnectedNicknames(st, sr, nk, room) ==
  [i \in 1..Len(SocketsIn(st, sr, room)) |-> nk[SocketsIn(st, sr, room)[i]]]

\* faulty variant: the callback removes without looking at the live sockets
IsStillConnected_NoRecheck(st, sr, nk, room, name) == FALSE

\* [...].some(s => s.rooms.has(room) && s.nickname === name)
IsStillConnected(st, sr, nk, room, name) ==
  \E s \in Sockets : st[s] = "live" /\ room \in sr[s] /\ nk[s] = name

\* ------------------------------------------------------------ broadcasts
Msg(via, ev, room, arg) == [via |-> via, ev |-> ev, room |-> room, arg |-> arg]

ParticipantsUpdate(room, r, connected) ==
  Msg("io", "participantsUpdate", room,
      [names |-> r.participants, roles |-> r.roles, avatars |-> r.avatars,
       moods |-> r.moods, connected |-> connected, devices |-> r.devices])

\* faulty variant: any participant passes the role check
HoldsRole_AnyRole(r, name, role) == Has(r.roles, name)

\* roomObj.roles[name] === role
HoldsRole(r, name, role) == Has(r.roles, name) /\ r.roles[name] = role

\* faulty variant: the empty room is kept
CleanUpEmptyRoom_Never(rms, room, r) == rms

\* if (roomObj.participants.length === 0) delete rooms[currentRoom]
CleanUpEmptyRoom(rms, room, r) ==
  IF Len(r.participants) = 0 THEN [rms EXCEPT ![room] = NoObj] ELSE rms

\* faulty variant: the vote of the removed nickname is left behind
RemoveNickname_KeepsVote(r, n) ==
  [r EXCEPT !.participants = Without(@, n),
            !.roles = Del(@, n), !.avatars = Del(@, n), !.moods = Del(@, n),
            !.devices = Del(@, n)]

\* the removal shared by forceRemoveUser, logout and the grace timer
RemoveNickname(r, n) ==
  [r EXCEPT !.participants = Without(@, n),
            !.roles = Del(@, n), !.avatars = Del(@, n), !.moods = Del(@, n),
            !.votes = Del(@, n), !.devices = Del(@, n)]

\* ------------------------------------------------------------ vote tally
\* clients of the reveal specification: two Developers and a Scrum Master
RevealProfiles == {<<"N", "Developer">>, <<"M", "Developer">>, <<"S", "Scrum Master">>}

\* vote payloads: an integer, a fraction, a negative, a token and the empty string
RevealPoints == {"5", "0.5", "-1", "?", ""}

\* Number(v), in tenths, for the values v that do not coerce to NaN
NumberOf ==
  [v \in {"5", "0.5", "-1", "", Null} |->
     CASE v = "5" -> 50 [] v = "0.5" -> 5 [] v = "-1" -> 0 - 10 [] OTHER -> 0]

\* isNaN(Number(v))
IsNaN(v) == v \notin DOMAIN NumberOf

\* faulty variant: every Developer of the room, connected or not
ConnectedDevelopers_AllDevelopers(st, sr, nk, room, r) ==
  SelectSeq(r.participants, LAMBDA name : HoldsRole(r, name, "Developer"))

\* [...io.sockets.sockets.values()]
\*   .filter(s => s.rooms.has(room) && roomObj.roles[s.nickname] === 'Developer')
\*   .map(s => s.nickname)
ConnectedDevelopers(st, sr, nk, room, r) ==
  SelectSeq(ConnectedNicknames(st, sr, nk, room),
            LAMBDA name : HoldsRole(r, name, "Developer"))

\* faulty variant: an empty or missing vote is kept
ValidVoters_KeepsEmpty(developers, votes) == developers

\* votes[name] !== null && votes[name] !== undefined && votes[name] !== ''
ValidVoters(developers, votes) ==
  SelectSeq(developers,
            LAMBDA name : Has(votes, name) /\ votes[name] # Null /\ votes[name] # "")

\* the object `freq`: the count of each key, and the keys in the order of
\* their first insertion.  The key String(p) of a number p converts back to
\* p, so a key is kept as the number itself.
EmptyFreq == [count |-> EmptyMap, order |-> <<>>]

\* faulty variant: a vote that is not a number is counted as 0
Count_NaNAsZero(freq, v) ==
  LET p == IF IsNaN(v) THEN 0 ELSE NumberOf[v]
  IN  IF Has(freq.count, p)
        THEN [freq EXCEPT !.count[p] = @ + 1]
        ELSE [count |-> Put(freq.count, p, 1), order |-> Append(freq.order, p)]

\* const p = Number(v); if (!isNaN(p)) freq[p] = (freq[p] || 0) + 1
Count(freq, v) ==
  IF IsNaN(v)
    THEN freq
    ELSE LET p == NumberOf[v]
         IN  IF Has(freq.count, p)
               THEN [freq EXCEPT !.count[p] = @ + 1]
               ELSE [count |-> Put(freq.count, p, 1), order |-> Append(freq.order, p)]

RECURSIVE Tally(_, _, _)
\* validVoters.forEach(...)
Tally(voters, votes, freq) ==
  IF voters = <<>>
    THEN freq
    ELSE Tally(Tail(voters), votes, Count(freq, votes[Head(voters)]))

\* a key that is a canonical array index: a non-negative integer
IsArrayIndex(p) == p >= 0 /\ p % 10 = 0

RECURSIVE SortAsc(_)
SortAsc(S) ==
  IF S = {} THEN <<>>
  ELSE LET m == CHOOSE x \in S : \A y \in S : x <= y
       IN  <<m>> \o SortAsc(S \ {m})

\* Object.keys(freq): the array-index keys in ascending order, then the other
\* keys in insertion order
ObjectKeys(freq) ==
  SortAsc({k \in DOMAIN freq.count : IsArrayIndex(k)})
    \o SelectSeq(freq.order, LAMBDA k : ~IsArrayIndex(k))

\* Math.max(...Object.values(freq), 0)
MaxCount(freq) ==
  LET C == {freq.count[k] : k \in DOMAIN freq.count} \cup {0}
  IN  CHOOSE m \in C : \A c \in C : c <= m

\* Object.keys(freq).filter(k => freq[k] === maxCount).map(Number)
Consensus(freq) ==
  SelectSeq(ObjectKeys(freq), LAMBDA k : freq.count[k] = MaxCount(freq))

\* validVoters.map(name => ({ name, avatar, point }))
VoteList(voters, r) ==
  [i \in 1..Len(voters) |->
     [name |-> voters[i], avatar |-> r.avatars[voters[i]], point |-> r.votes[voters[i]]]]

\* roomObj.participants.filter(p => roomObj.roles[p] === 'Scrum Master')
ScrumMasters(r) ==
  SelectSeq(r.participants, LAMBDA p : HoldsRole(r, p, "Scrum Master"))

\* [...].find(s => s.rooms.has(room) && s.nickname === smName)
SmSocket(st, sr, nk, room, smName) ==
  LET found == SelectSeq(SocketsIn(st, sr, room), LAMBDA s : nk[s] = smName)
  IN  IF found = <<>> THEN 0 ELSE Head(found)

\* the summary computed by revealVotes in room record r
Summary(st, sr, nk, room, r) ==
  LET voters == ValidVoters(ConnectedDevelopers(st, sr, nk, room, r), r.votes)
  IN  [story |-> IF r.currentStory = "" THEN "Untitled Story" ELSE r.currentStory,
       consensus |-> Consensus(Tally(voters, r.votes, EmptyFreq)),
       votes |-> VoteList(voters, r)]

\* smSocket.emit('teamChat', { type: 'voteSummary', summary }), per Scrum Master
VoteSummaries(st, sr, nk, room, r) ==
  LET online == SelectSeq(ScrumMasters(r),
                          LAMBDA p : SmSocket(st, sr, nk, room, p) # 0)
  IN  [i \in 1..Len(online) |->
         Msg("direct", "teamChat", room,
             [to |-> SmSocket(st, sr, nk, room, online[i]), type |-> "voteSummary",
              summary |-> Summary(st, sr, nk, room, r)])]

\* ---------------------------------------------------------------- Init
Init ==
  /\ status = [s \in Sockets |-> "unborn"]
  /\ nickname = [s \in Sockets |-> Null]
  /\ currentRoom = [s \in Sockets |-> Null]
  /\ srooms = [s \in Sockets |-> {}]
  /\ timer = [s \in Sockets |-> "none"]
  /\ timerObj = [s \in Sockets |-> NoObj]
  /\ queue = <<>>
  /\ tqueue = <<>>
  /\ rooms = [r \in RoomIds |-> NoObj]
  /\ objs = <<>>
  /\ out = <<>>
  /\ last = [op |-> "init", sock |-> 0]
  /\ rejoined = {}

\* io.on('connection'): sockets are numbered in connection order
connection(s) ==
  /\ status[s] = "unborn"
  /\ \A p \in Sockets : p < s => status[p] # "unborn"
  /\ status' = [status EXCEPT ![s] = "live"]
  /\ out' = <<>>
  /\ last' = [op |-> "connection", sock |-> s]
  /\ UNCHANGED tqueue
  /\ UNCHANGED <<nickname, currentRoom, srooms, timer, timerObj, queue, rooms, objs,
                 rejoined>>

\* socket.on('join')
join(s, name, room, role, avatar, emoji, device) ==
  LET o   == IF rooms[room] = NoObj THEN NewId ELSE rooms[room]
      r0  == IF rooms[room] = NoObj THEN NewRoom ELSE objs[o]
      rejoin == Includes(r0.participants, name) /\ Has(r0.disconnectTimers, name)
      r1  == IF rejoin
               THEN [r0 EXCEPT !.disconnectTimers = Del(@, name)]
               ELSE IF ~Includes(r0.participants, name)
                      THEN [r0 EXCEPT !.participants = Push(@, name)]
                      ELSE r0
      r2  == [r1 EXCEPT !.roles = Put(@, name, role),
                        !.avatars = Put(@, name, avatar),
                        !.moods = Put(@, name, emoji),
                        !.votes = Put(@, name, Null),
                        !.devices = Put(@, name, device)]
      tm  == IF rejoin THEN ClearTimeout(timer, r0.disconnectTimers[name]) ELSE timer
      q   == IF rejoin THEN Dequeue(queue, r0.disconnectTimers[name]) ELSE queue
      nk  == [nickname EXCEPT ![s] = name]
      sr  == [srooms EXCEPT ![s] = @ \cup {room}]
      rms == [rooms EXCEPT ![room] = o]
  IN  /\ status[s] = "live"
      /\ nickname' = Closure(nk, status, tm, Null)
      /\ currentRoom' = Closure([currentRoom EXCEPT ![s] = room], status, tm, Null)
      /\ srooms' = sr
      /\ timer' = tm
      /\ timerObj' = Closure(timerObj, status, tm, NoObj)
      /\ queue' = q
      /\ rooms' = rms
      /\ objs' = Collect(Put(objs, o, r2), rms, tm, timerObj)
      /\ out' = << ParticipantsUpdate(room, r2, ConnectedNicknames(status, sr, nk, room)),
                   Msg("socket", "userJoined", room, name) >>
      /\ last' = [op |-> "join", sock |-> s]
      /\ UNCHANGED tqueue
      /\ rejoined' = Pending(rejoined \cup {h \in Sockets : nickname[h] = name
                                                          /\ currentRoom[h] = room}, tm)
      /\ UNCHANGED status

\* socket.on('vote')
vote(s, name, point) ==
  LET room == currentRoom[s]
  IN  /\ status[s] = "live"
      /\ IF room # Null /\ rooms[room] # NoObj
           THEN LET o == rooms[room]
                    r == [objs[o] EXCEPT !.votes = Put(@, name, point)]
                IN  /\ objs' = [objs EXCEPT ![o] = r]
                    /\ out' = << Msg("io", "updateVotes", room, r.votes) >>
           ELSE /\ objs' = objs
                /\ out' = <<>>
      /\ last' = [op |-> "vote", sock |-> s]
      /\ UNCHANGED tqueue
      /\ UNCHANGED <<status, nickname, currentRoom, srooms, timer, timerObj, queue, rooms,
                     rejoined>>

\* socket.on('revealVotes')
revealVotes(s) ==
  LET room == currentRoom[s]
  IN  /\ status[s] = "live"
      /\ IF room # Null /\ rooms[room] # NoObj
           THEN out' = << Msg("io", "revealVotes", room,
                              [story |-> objs[rooms[room]].currentStory]) >>
                         \o VoteSummaries(status, srooms, nickname, room, objs[rooms[room]])
           ELSE out' = <<>>
      /\ last' = [op |-> "revealVotes", sock |-> s]
      /\ UNCHANGED tqueue
      /\ UNCHANGED <<status, nickname, currentRoom, srooms, timer, timerObj, queue, rooms,
                     objs, rejoined>>

\* socket.on('endSession')
endSession(s) ==
  LET room == currentRoom[s]
  IN  /\ status[s] = "live"
      /\ IF room # Null /\ rooms[room] # NoObj
           THEN /\ objs' = [objs EXCEPT ![rooms[room]] = ClearSession(@)]
                /\ out' = << Msg("io", "sessionEnded", room, Null) >>
           ELSE /\ objs' = objs
                /\ out' = <<>>
      /\ last' = [op |-> "endSession", sock |-> s]
      /\ UNCHANGED tqueue
      /\ UNCHANGED <<status, nickname, currentRoom, srooms, timer, timerObj, queue, rooms,
                     rejoined>>

\* socket.on('forceRemoveUser')
forceRemoveUser(s, targetNickname) ==
  LET room == currentRoom[s]
      o    == rooms[room]
      r0   == objs[o]
      senderIsScrumMaster == HoldsRole(r0, nickname[s], "Scrum Master")
      proceeds ==
        /\ room # Null /\ rooms[room] # NoObj
        /\ senderIsScrumMaster
        /\ Includes(r0.participants, targetNickname)
        /\ ~IsStillConnected(status, srooms, nickname, room, targetNickname)
      hasTimer == Has(r0.disconnectTimers, targetNickname)
      tm   == IF hasTimer THEN ClearTimeout(timer, r0.disconnectTimers[targetNickname])
                          ELSE timer
      q    == IF hasTimer THEN Dequeue(queue, r0.disconnectTimers[targetNickname])
                          ELSE queue
      r1   == RemoveNickname([r0 EXCEPT !.disconnectTimers = Del(@, targetNickname)],
                             targetNickname)
  IN  /\ status[s] = "live"
      /\ IF proceeds
           THEN /\ timer' = tm
                /\ queue' = q
                /\ nickname' = Closure(nickname, status, tm, Null)
                /\ currentRoom' = Closure(currentRoom, status, tm, Null)
                /\ timerObj' = Closure(timerObj, status, tm, NoObj)
                /\ objs' = Collect([objs EXCEPT ![o] = r1], rooms, tm, timerObj)
                /\ out' = << ParticipantsUpdate(room, r1,
                               ConnectedNicknames(status, srooms, nickname, room)),
                             Msg("io", "userLeft", room, targetNickname) >>
           ELSE /\ UNCHANGED <<timer, queue, nickname, currentRoom, timerObj, objs>>
                /\ out' = <<>>
      /\ last' = [op |-> "forceRemoveUser", sock |-> s]
      /\ UNCHANGED tqueue
      /\ rejoined' = Pending(rejoined, timer')
      /\ UNCHANGED <<status, srooms, rooms>>

\* socket.on('endPointingSession')
endPointingSession(s) ==
  LET room == currentRoom[s]
      rms  == [rooms EXCEPT ![room] = NoObj]
  IN  /\ status[s] = "live"
      /\ IF room # Null /\ rooms[room] # NoObj
           THEN /\ rooms' = rms
                /\ objs' = Collect(objs, rms, timer, timerObj)
                /\ out' = << Msg("io", "sessionTerminated", room, Null) >>
           ELSE /\ UNCHANGED <<rooms, objs>>
                /\ out' = <<>>
      /\ last' = [op |-> "endPointingSession", sock |-> s]
      /\ UNCHANGED tqueue
      /\ UNCHANGED <<status, nickname, currentRoom, srooms, timer, timerObj, queue,
                     rejoined>>

\* socket.on('startSession'): the room is the one named in the payload
startSession(s, title, room) ==
  /\ status[s] = "live"
  /\ IF rooms[room] # NoObj
       THEN /\ objs' = [objs EXCEPT ![rooms[room]] =
                          [objs[rooms[room]] EXCEPT
                             !.votes = ResetVotes(objs[rooms[room]]),
                             !.currentStory = title]]
            /\ out' = << Msg("io", "startSession", room, title) >>
       ELSE /\ objs' = objs
            /\ out' = <<>>
  /\ last' = [op |-> "startSession", sock |-> s]
  /\ UNCHANGED tqueue
  /\ UNCHANGED <<status, nickname, currentRoom, srooms, timer, timerObj, queue, rooms,
                 rejoined>>

\* a payload field the client left out
Undefined == "undefined"

\* chat texts: a message, the empty string and a payload without text
Texts == {"hi", "", Undefined}

\* faulty variant: only a missing value is falsy
Truthy_DefinedOnly(v) == v \notin {Undefined, Null}

\* JavaScript truthiness of a string or missing value, as in `currentRoom && text`
Truthy(v) == v \notin {"", Undefined, Null}

\* socket.on('teamChat')
teamChat(s, sender, text) ==
  /\ status[s] = "live"
  /\ out' = IF Truthy(currentRoom[s]) /\ Truthy(text)
              THEN << Msg("io", "teamChat", currentRoom[s],
                          [sender |-> sender, text |-> text]) >>
              ELSE <<>>
  /\ last' = [op |-> "teamChat", sock |-> s]
  /\ UNCHANGED <<status, nickname, currentRoom, srooms, timer, timerObj, queue, tqueue,
                 rooms, objs, rejoined>>

\* socket.on('emojiReaction')
emojiReaction(s, sender, emoji) ==
  /\ status[s] = "live"
  /\ out' = IF Truthy(currentRoom[s])
              THEN << Msg("io", "emojiReaction", currentRoom[s],
                          [sender |-> sender, emoji |-> emoji]) >>
              ELSE <<>>
  /\ last' = [op |-> "emojiReaction", sock |-> s]
  /\ UNCHANGED <<status, nickname, currentRoom, srooms, timer, timerObj, queue, tqueue,
                 rooms, objs, rejoined>>

\* an inbound 'haifetti' event: the connection handler registers no listener
\* under that name, so the event is dropped
haifetti(s) ==
  /\ status[s] = "live"
  /\ out' = <<>>
  /\ last' = [op |-> "haifetti", sock |-> s]
  /\ UNCHANGED <<status, nickname, currentRoom, srooms, timer, timerObj, queue, tqueue,
                 rooms, objs, rejoined>>

\* socket.on('userTyping'): every event arms a timer of its own
userTyping(s) ==
  LET room == currentRoom[s]
      o    == rooms[room]
      r1   == IF Includes(objs[o].typing, nickname[s])
                THEN objs[o]
                ELSE [objs[o] EXCEPT !.typing = Push(@, nickname[s])]
  IN  /\ status[s] = "live"
      /\ Len(tqueue) < MaxTyping
      /\ IF room # Null /\ rooms[room] # NoObj
           THEN /\ objs' = [objs EXCEPT ![o] = r1]
                /\ out' = << Msg("io", "typingUpdate", room, r1.typing) >>
                /\ tqueue' = Append(tqueue, [sock |-> s, obj |-> o,
                                             by |-> nickname[s], room |-> room])
           ELSE /\ UNCHANGED <<objs, tqueue>>
                /\ out' = <<>>
      /\ last' = [op |-> "userTyping", sock |-> s]
      /\ UNCHANGED <<status, nickname, currentRoom, srooms, timer, timerObj, queue, rooms,
                     rejoined>>

\* the setTimeout callback armed by userTyping: `roomObj` is the object
\* captured by the handler, `nickname` and `currentRoom` are the socket's
\* variables as they are when the timer fires
typingTimer ==
  LET e    == Head(tqueue)
      name == nickname[e.sock]
      room == currentRoom[e.sock]
      r1   == [objs[e.obj] EXCEPT !.typing = Without(@, name)]
      tq   == Tail(tqueue)
      os   == [objs EXCEPT ![e.obj] = r1]
  IN  /\ tqueue # <<>>
      /\ tqueue' = tq
      /\ objs' = [o \in (DOMAIN os) \cap ReachableFrom(rooms, timer, timerObj, tq) |-> os[o]]
      /\ out' = << Msg("io", "typingUpdate", room, r1.typing) >>
      /\ nickname' = ClosureFrom(nickname, status, timer, tq, Null)
      /\ currentRoom' = ClosureFrom(currentRoom, status, timer, tq, Null)
      /\ last' = [op |-> "typingTimer", sock |-> e.sock]
      /\ UNCHANGED <<status, srooms, timer, timerObj, queue, rooms, rejoined>>

\* socket.on('updateMood')
updateMood(s, name, emoji) ==
  LET room == currentRoom[s]
  IN  /\ status[s] = "live"
      /\ IF room # Null /\ rooms[room] # NoObj
           THEN LET o == rooms[room]
                    r == [objs[o] EXCEPT !.moods = Put(@, name, emoji)]
                IN  /\ objs' = [objs EXCEPT ![o] = r]
                    /\ out' = << ParticipantsUpdate(room, r,
                                   ConnectedNicknames(status, srooms, nickname, room)) >>
           ELSE /\ objs' = objs
                /\ out' = <<>>
      /\ last' = [op |-> "updateMood", sock |-> s]
      /\ UNCHANGED tqueue
      /\ UNCHANGED <<status, nickname, currentRoom, srooms, timer, timerObj, queue, rooms,
                     rejoined>>

\* socket.on('logout')
logout(s) ==
  LET room == currentRoom[s]
      name == nickname[s]
      o    == rooms[room]
      r0   == objs[o]
      hasTimer == Has(r0.disconnectTimers, name)
      tm   == IF hasTimer THEN ClearTimeout(timer, r0.disconnectTimers[name]) ELSE timer
      q    == IF hasTimer THEN Dequeue(queue, r0.disconnectTimers[name]) ELSE queue
      r1   == RemoveNickname([r0 EXCEPT !.disconnectTimers = Del(@, name)], name)
      rms  == CleanUpEmptyRoom(rooms, room, r1)
  IN  /\ status[s] = "live"
      /\ IF room # Null /\ rooms[room] # NoObj
           THEN /\ timer' = tm
                /\ queue' = q
                /\ nickname' = Closure(nickname, status, tm, Null)
                /\ currentRoom' = Closure(currentRoom, status, tm, Null)
                /\ timerObj' = Closure(timerObj, status, tm, NoObj)
                /\ srooms' = [srooms EXCEPT ![s] = @ \ {room}]
                /\ rooms' = rms
                /\ objs' = Collect([objs EXCEPT ![o] = r1], rms, tm, timerObj)
                /\ out' = << ParticipantsUpdate(room, r1,
                               ConnectedNicknames(status, srooms, nickname, room)),
                             Msg("socket", "userLeft", room, name) >>
           ELSE /\ UNCHANGED <<timer, queue, nickname, currentRoom, timerObj,
                               srooms, rooms, objs>>
                /\ out' = <<>>
      /\ last' = [op |-> "logout", sock |-> s]
      /\ UNCHANGED tqueue
      /\ rejoined' = Pending(rejoined, timer')
      /\ UNCHANGED status

\* socket.on('disconnect'): socket.io has already emptied socket.rooms and
\* dropped the socket from io.sockets.sockets when the handler runs
disconnect(s) ==
  LET room == currentRoom[s]
      name == nickname[s]
      st   == [status EXCEPT ![s] = "dead"]
      sr   == [srooms EXCEPT ![s] = {}]
      o    == rooms[room]
      r0   == objs[o]
      hasTimer == Has(r0.disconnectTimers, name)
      tm0  == IF hasTimer THEN ClearTimeout(timer, r0.disconnectTimers[name]) ELSE timer
      q0   == IF hasTimer THEN Dequeue(queue, r0.disconnectTimers[name]) ELSE queue
      tm   == [tm0 EXCEPT ![s] = "pending"]
      tobj == [timerObj EXCEPT ![s] = o]
      r1   == [r0 EXCEPT !.disconnectTimers = Put(@, name, s)]
  IN  /\ status[s] = "live"
      /\ status' = st
      /\ srooms' = sr
      /\ IF room # Null /\ rooms[room] # NoObj
           THEN /\ timer' = tm
                /\ timerObj' = Closure(tobj, st, tm, NoObj)
                /\ nickname' = Closure(nickname, st, tm, Null)
                /\ currentRoom' = Closure(currentRoom, st, tm, Null)
                /\ queue' = Append(q0, s)
                /\ objs' = Collect([objs EXCEPT ![o] = r1], rooms, tm, tobj)
                /\ out' = << ParticipantsUpdate(room, r0,
                               ConnectedNicknames(st, sr, nickname, room)),
                             Msg("io", "userLeft", room, name) >>
           ELSE /\ nickname' = Closure(nickname, st, timer, Null)
                /\ currentRoom' = Closure(currentRoom, st, timer, Null)
                /\ UNCHANGED <<timer, timerObj, queue, objs>>
                /\ out' = <<>>
      /\ last' = [op |-> "disconnect", sock |-> s]
      /\ UNCHANGED tqueue
      /\ rejoined' = Pending(rejoined, timer')
      /\ UNCHANGED rooms

\* the setTimeout callback armed by disconnect; `roomObj`, `currentRoom` and
\* `nickname` are the closure's: the object captured at disconnect, and the
\* dead socket's variables
graceTimer(s) ==
  LET room == currentRoom[s]
      name == nickname[s]
      o    == timerObj[s]
      r0   == objs[o]
      tm   == [timer EXCEPT ![s] = "fired"]
      r1   == RemoveNickname([r0 EXCEPT !.disconnectTimers = Del(@, name)], name)
  IN  /\ queue # <<>>
      /\ Head(queue) = s
      /\ timer' = tm
      /\ queue' = Tail(queue)
      /\ IF ~IsStillConnected(status, srooms, nickname, room, name)
           THEN /\ objs' = Collect([objs EXCEPT ![o] = r1], rooms, tm, timerObj)
                /\ out' = << ParticipantsUpdate(room, r1,
                               ConnectedNicknames(status, srooms, nickname, room)),
                             Msg("io", "userLeft", room, name) >>
           ELSE /\ objs' = Collect(objs, rooms, tm, timerObj)
                /\ out' = <<>>
      /\ nickname' = Closure(nickname, status, tm, Null)
      /\ currentRoom' = Closure(currentRoom, status, tm, Null)
      /\ timerObj' = Closure(timerObj, status, tm, NoObj)
      /\ last' = [op |-> "graceTimer", sock |-> s]
      /\ UNCHANGED tqueue
      /\ rejoined' = Pending(rejoined, tm)
      /\ UNCHANGED <<status, srooms, rooms>>

\* ------------------------------------- the 20-minute grace period variant
\* /mobile/i.test(userAgent): the first client connects from a phone, the
\* others from a desktop browser
isMobile == [s \in Sockets |-> s = 1]

\* socket.on('join') of the variant: the device comes from the handshake's
\* user agent, everything else is as in join
join20(s, name, room, role, avatar, emoji) ==
  LET o   == IF rooms[room] = NoObj THEN NewId ELSE rooms[room]
      r0  == IF rooms[room] = NoObj THEN NewRoom ELSE objs[o]
      rejoin == Includes(r0.participants, name) /\ Has(r0.disconnectTimers, name)
      r1  == IF ~Includes(r0.participants, name)
               THEN [r0 EXCEPT !.participants = Push(@, name)]
               ELSE IF Has(r0.disconnectTimers, name)
                      THEN [r0 EXCEPT !.disconnectTimers = Del(@, name)]
                      ELSE r0
      r2  == [r1 EXCEPT !.roles = Put(@, name, role),
                        !.avatars = Put(@, name, avatar),
                        !.moods = Put(@, name, emoji),
                        !.votes = Put(@, name, Null),
                        !.devices = Put(@, name, IF isMobile[s] THEN "mobile"
                                                                ELSE "desktop")]
      tm  == IF rejoin THEN ClearTimeout(timer, r0.disconnectTimers[name]) ELSE timer
      q   == IF rejoin THEN Dequeue(queue, r0.disconnectTimers[name]) ELSE queue
      nk  == [nickname EXCEPT ![s] = name]
      sr  == [srooms EXCEPT ![s] = @ \cup {room}]
      rms == [rooms EXCEPT ![room] = o]
  IN  /\ status[s] = "live"
      /\ nickname' = Closure(nk, status, tm, Null)
      /\ currentRoom' = Closure([currentRoom EXCEPT ![s] = room], status, tm, Null)
      /\ srooms' = sr
      /\ timer' = tm
      /\ timerObj' = Closure(timerObj, status, tm, NoObj)
      /\ queue' = q
      /\ rooms' = rms
      /\ objs' = Collect(Put(objs, o, r2), rms, tm, timerObj)
      /\ out' = << ParticipantsUpdate(room, r2, ConnectedNicknames(status, sr, nk, room)),
                   Msg("socket", "userJoined", room, name) >>
      /\ last' = [op |-> "join20", sock |-> s]
      /\ UNCHANGED tqueue
      /\ rejoined' = Pending(rejoined \cup {h \in Sockets : nickname[h] = name
                                                          /\ currentRoom[h] = room}, tm)
      /\ UNCHANGED status

\* socket.on('disconnect') of the variant: the handle stored for the nickname
\* is overwritten, a timer already pending for it is not cleared
disconnect20(s) ==
  LET room == currentRoom[s]
      name == nickname[s]
      st   == [status EXCEPT ![s] = "dead"]
      sr   == [srooms EXCEPT ![s] = {}]
      o    == rooms[room]
      tm   == [timer EXCEPT ![s] = "pending"]
      tobj == [timerObj EXCEPT ![s] = o]
      r1   == [objs[o] EXCEPT !.disconnectTimers = Put(@, name, s)]
  IN  /\ status[s] = "live"
      /\ status' = st
      /\ srooms' = sr
      /\ IF room # Null /\ rooms[room] # NoObj
           THEN /\ timer' = tm
                /\ timerObj' = Closure(tobj, st, tm, NoObj)
                /\ nickname' = Closure(nickname, st, tm, Null)
                /\ currentRoom' = Closure(currentRoom, st, tm, Null)
                /\ queue' = Append(queue, s)
                /\ objs' = Collect([objs EXCEPT ![o] = r1], rooms, tm, tobj)
                /\ out' = << ParticipantsUpdate(room, r1,
                               ConnectedNicknames(st, sr, nickname, room)) >>
           ELSE /\ nickname' = Closure(nickname, st, timer, Null)
                /\ currentRoom' = Closure(currentRoom, st, timer, Null)
                /\ UNCHANGED <<timer, timerObj, queue, objs>>
                /\ out' = <<>>
      /\ last' = [op |-> "disconnect20", sock |-> s]
      /\ UNCHANGED tqueue
      /\ rejoined' = Pending(rejoined, timer')
      /\ UNCHANGED rooms

\* the setTimeout callback armed by the variant's disconnect: it removes the
\* nickname from the captured record `r` without looking at the sockets, then
\* emitParticipants(currentRoom) reads rooms[currentRoom] (and throws when the
\* room is no longer registered)
graceTimer20(s) ==
  LET room == currentRoom[s]
      name == nickname[s]
      o    == timerObj[s]
      tm   == [timer EXCEPT ![s] = "fired"]
      r1   == RemoveNickname([objs[o] EXCEPT !.disconnectTimers = Del(@, name)], name)
      os   == [objs EXCEPT ![o] = r1]
  IN  /\ queue # <<>>
      /\ Head(queue) = s
      /\ timer' = tm
      /\ queue' = Tail(queue)
      /\ objs' = Collect(os, rooms, tm, timerObj)
      /\ out' = IF rooms[room] # NoObj
                  THEN << ParticipantsUpdate(room, os[rooms[room]],
                            ConnectedNicknames(status, srooms, nickname, room)) >>
                  ELSE <<>>
      /\ nickname' = Closure(nickname, status, tm, Null)
      /\ currentRoom' = Closure(currentRoom, status, tm, Null)
      /\ timerObj' = Closure(timerObj, status, tm, NoObj)
      /\ last' = [op |-> "graceTimer20", sock |-> s]
      /\ UNCHANGED tqueue
      /\ rejoined' = Pending(rejoined, tm)
      /\ UNCHANGED <<status, srooms, rooms>>

\* ------------------------------------------------- client event streams
Connection == \E s \in Sockets : connection(s)

Join(Rms, Prof) ==
  \E s \in Sockets, pr \in Prof, room \in Rms,
     avatar \in Avatars, emoji \in Emojis, device \in Devices :
     join(s, pr[1], room, pr[2], avatar, emoji, device)

Vote == \E s \in Sockets, name \in Nicknames, point \in Points : vote(s, name, point)

RevealVotes == \E s \in Sockets : revealVotes(s)

\* a Developer of the reveal specification votes under its own nickname
VoteReveal ==
  \E s \in Sockets, point \in RevealPoints :
     nickname[s] \in {"N", "M"} /\ vote(s, nickname[s], point)

EndSession == \E s \in Sockets : endSession(s)

ForceRemoveUser == \E s \in Sockets, t \in Nicknames : forceRemoveUser(s, t)

EndPointingSession == \E s \in Sockets : endPointingSession(s)

StartSession ==
  \E s \in Sockets, title \in Titles, room \in RoomIds : startSession(s, title, room)

UpdateMood == \E s \in Sockets, name \in Nicknames, emoji \in Emojis : updateMood(s, name, emoji)

UserTyping == \E s \in Sockets : userTyping(s)

TypingTimer == typingTimer

Logout == \E s \in Sockets : logout(s)

Disconnect == \E s \in Sockets : disconnect(s)

GraceTimer == \E s \in Sockets : graceTimer(s)

\* Membership and presence: clients of one room, with both roles.
Next ==
  \/ Connection
  \/ Join(CoreRooms, Profiles)
  \/ Logout
  \/ Disconnect
  \/ GraceTimer
  \/ ForceRemoveUser
  \/ EndPointingSession

Spec == Init /\ [][Next]_vars

\* Estimation session: votes, stories and moods of clients that stay connected.
NextSession ==
  \/ Connection
  \/ Join(CoreRooms, Nicknames \X SessionRoles)
  \/ Logout
  \/ Vote
  \/ StartSession
  \/ EndSession
  \/ UpdateMood

SpecSession == Init /\ [][NextSession]_vars

\* Reveal: two Developers and a Scrum Master vote and reveal; a client may
\* drop its connection.
NextReveal ==
  \/ Connection
  \/ Join(CoreRooms, RevealProfiles)
  \/ VoteReveal
  \/ RevealVotes
  \/ Disconnect

SpecReveal == Init /\ [][NextReveal]_vars

\* Typing: Developers of one room join, type, and their typing timers fire.
NextTyping ==
  \/ Connection
  \/ Join(CoreRooms, Nicknames \X SessionRoles)
  \/ UserTyping
  \/ TypingTimer

SpecTyping == Init /\ [][NextTyping]_vars

\* Typing with timers that do fire: a timer armed by setTimeout runs once
\* its 3 seconds have passed.
SpecTypingFair == SpecTyping /\ WF_vars(TypingTimer)

\* Two rooms: Developers join either room and start sessions.
NextRooms ==
  \/ Connection
  \/ Join(RoomIds, Nicknames \X SessionRoles)
  \/ StartSession

SpecRooms == Init /\ [][NextRooms]_vars

TeamChat == \E s \in Sockets, sender \in Nicknames, text \in Texts : teamChat(s, sender, text)

EmojiReaction ==
  \E s \in Sockets, sender \in Nicknames, emoji \in Emojis : emojiReaction(s, sender, emoji)

Haifetti == \E s \in Sockets : haifetti(s)

\* Relays: clients of one room chat, react and reveal; a logout leaves a
\* socket with a room it is no longer subscribed to.
NextChat ==
  \/ Connection
  \/ Join(CoreRooms, RevealProfiles)
  \/ TeamChat
  \/ EmojiReaction
  \/ Haifetti
  \/ RevealVotes
  \/ Logout

SpecChat == Init /\ [][NextChat]_vars

Join20 ==
  \E s \in Sockets, pr \in Nicknames \X SessionRoles, room \in CoreRooms,
     avatar \in Avatars, emoji \in Emojis :
     join20(s, pr[1], room, pr[2], avatar, emoji)

Disconnect20 == \E s \in Sockets : disconnect20(s)

GraceTimer20 == \E s \in Sockets : graceTimer20(s)

\* The 20-minute variant: Developers of one room join, drop their connection
\* and have their grace timers expire.
Next20 ==
  \/ Connection
  \/ Join20
  \/ Disconnect20
  \/ GraceTimer20

Spec20 == Init /\ [][Next20]_vars

\* a client votes under its own nickname
VoteOwn ==
  \E s \in Sockets, point \in Points : nickname[s] # Null /\ vote(s, nickname[s], point)

\* Session end: Developers of one room join, start a story, vote, drop their
\* connection and end the session.
NextEnd ==
  \/ Connection
  \/ Join(CoreRooms, Nicknames \X SessionRoles)
  \/ VoteOwn
  \/ \E s \in Sockets, title \in Titles, room \in CoreRooms : startSession(s, title, room)
  \/ Disconnect
  \/ EndSession

SpecEnd == Init /\ [][NextEnd]_vars

\* ====================================================== properties
Registered == {r \in RoomIds : rooms[r] # NoObj}

RoomOf(r) == objs[rooms[r]]

\* some live socket subscribed to room r carries nickname n
Carried(r, n) ==
  \E x \in Sockets : status[x] = "live" /\ r \in srooms[x] /\ nickname[x] = n

CarriedNext(r, n) ==
  \E x \in Sockets : status'[x] = "live" /\ r \in srooms'[x] /\ nickname'[x] = n

\* the per-nickname maps of room record R hold no entry for n
Purged(R, n) ==
  /\ ~Includes(R.participants, n)
  /\ n \notin DOMAIN R.roles /\ n \notin DOMAIN R.avatars /\ n \notin DOMAIN R.moods
  /\ n \notin DOMAIN R.votes /\ n \notin DOMAIN R.devices

\* C1: in every registered room the key sets of votes, roles, avatars and
\* moods are each exactly the set of nicknames in participants.
C1_KeysEqualParticipants ==
  \A r \in Registered :
    LET R == RoomOf(r)
        P == Elems(R.participants)
    IN  /\ DOMAIN R.votes = P
        /\ DOMAIN R.roles = P
        /\ DOMAIN R.avatars = P
        /\ DOMAIN R.moods = P

\* C2: after every operation the registry holds no room whose participants
\* list is empty, and only endPointingSession deletes a room that still has
\* participants.
C2_NoEmptyRoomKept ==
  \A r \in Registered : Len(RoomOf(r).participants) > 0

\* C3: a grace timer removes a nickname from a room only if no live socket
\* subscribed to that room carries the nickname: a participant with a
\* connected transport survives every timer firing.
C3_TimerSparesConnected ==
  [][\A s \in Sockets :
       graceTimer(s) =>
         \A r \in Registered, n \in Nicknames :
           (Includes(RoomOf(r).participants, n) /\ Carried(r, n))
             => (rooms'[r] # NoObj /\ Includes(objs'[rooms'[r]].participants, n))]_vars

\* a timer fired while its nickname was carried by a live socket of the room
C3_Witness ==
  /\ last.op = "graceTimer"
  /\ out = <<>>
  /\ \E r \in Registered, n \in Nicknames :
       Includes(RoomOf(r).participants, n) /\ Carried(r, n)

\* socket h closed as nickname n in the room now registered under id r, and
\* the grace timer its disconnect armed is still pending
GraceRunning(h, n, r) ==
  /\ timer[h] = "pending"
  /\ nickname[h] = n
  /\ currentRoom[h] = r
  /\ rooms[r] # NoObj
  /\ timerObj[h] = rooms[r]

\* a timer that has been cleared stays cleared and never fires
ClearedStaysCleared ==
  \A h \in Sockets :
    timer[h] = "cancelled" => (timer'[h] = "cancelled" /\ ~Includes(queue', h))

\* C4: disconnect(N) followed by join(N) to the same room before the grace
\* deadline leaves N in participants with votes[N] null, removes N's entry
\* from the pending-removal map and cancels the timer, which never fires.
C4_RejoinCancelsRemoval ==
  [][/\ ClearedStaysCleared
     /\ \A s \in Sockets, n \in Nicknames, r \in RoomIds, role \in Roles,
           avatar \in Avatars, emoji \in Emojis, device \in Devices :
          (join(s, n, r, role, avatar, emoji, device)
             /\ \E h \in Sockets : GraceRunning(h, n, r))
          => /\ rooms'[r] # NoObj
             /\ Includes(objs'[rooms'[r]].participants, n)
             /\ Has(objs'[rooms'[r]].votes, n)
             /\ objs'[rooms'[r]].votes[n] = Null
             /\ ~Has(objs'[rooms'[r]].disconnectTimers, n)
             /\ \A h \in Sockets : GraceRunning(h, n, r) => timer'[h] = "cancelled"]_vars

\* participants of the room registered under id r (none when r is absent)
Members(r) == IF rooms[r] = NoObj THEN {} ELSE Elems(RoomOf(r).participants)

MembersNext(r) ==
  IF rooms'[r] = NoObj THEN {} ELSE Elems(objs'[rooms'[r]].participants)

\* a nickname enters a room's participants only through a join of that nickname
AbsentUntilJoin ==
  \A r \in RoomIds, n \in Nicknames :
    (n \notin Members(r) /\ n \in MembersNext(r))
      => \E s \in Sockets, role \in Roles, avatar \in Avatars, emoji \in Emojis,
            device \in Devices : join(s, n, r, role, avatar, emoji, device)

\* the one removal broadcast: participantsUpdate without n, then userLeft(n)
RemovalBroadcast(msgs, r, n) ==
  /\ Len(msgs) = 2
  /\ msgs[1].ev = "participantsUpdate" /\ msgs[1].room = r
  /\ ~Includes(msgs[1].arg.names, n)
  /\ msgs[2] = Msg("io", "userLeft", r, n)

\* what a grace timer that removes nickname[s] leaves behind
TimerRemoved(s) ==
  /\ timerObj[s] \in DOMAIN objs' => Purged(objs'[timerObj[s]], nickname[s])
  /\ nickname[s] \notin MembersNext(currentRoom[s])
  /\ RemovalBroadcast(out', currentRoom[s], nickname[s])

C6_EntryIffInGrace ==
  \A r \in Registered, n \in Nicknames :
    Has(RoomOf(r).disconnectTimers, n)
      <=> /\ Includes(RoomOf(r).participants, n)
          /\ ~Carried(r, n)
          /\ \E h \in Sockets : GraceRunning(h, n, r)

\* C7: logout by the socket of a room's sole participant deletes the room.
C7_SoleLogoutDeletesRoom ==
  [][\A s \in Sockets :
       (/\ logout(s)
        /\ currentRoom[s] # Null
        /\ rooms[currentRoom[s]] # NoObj
        /\ RoomOf(currentRoom[s]).participants = <<nickname[s]>>)
       => rooms'[currentRoom[s]] = NoObj]_vars

\* the sole participant has just logged out and its room is gone
C7_Witness ==
  /\ last.op = "logout"
  /\ Len(out) = 2
  /\ out[1].arg.names = <<>>
  /\ out[2].arg = nickname[last.sock]
  /\ rooms[out[1].room] = NoObj

\* everything but the broadcast log is left as it was
RoomStateUnchanged ==
  UNCHANGED <<status, nickname, currentRoom, srooms, timer, timerObj, queue, rooms, objs>>

\* socket s holds the role Scrum Master in the room it has joined
IsScrumMaster(s) ==
  /\ currentRoom[s] # Null
  /\ rooms[currentRoom[s]] # NoObj
  /\ nickname[s] \in DOMAIN RoomOf(currentRoom[s]).roles
  /\ RoomOf(currentRoom[s]).roles[nickname[s]] = "Scrum Master"

\* C8: forceRemoveUser from a socket that is not Scrum Master of its room
\* changes nothing and emits nothing, whatever the target.
C8_NonScrumMasterNoOp ==
  [][\A s \in Sockets, t \in Nicknames :
       (forceRemoveUser(s, t) /\ ~IsScrumMaster(s))
         => (RoomStateUnchanged /\ out' = <<>>)]_vars

\* a socket that is not Scrum Master has just asked for a removal while a
\* disconnected participant was waiting in its room
C8_Witness ==
  /\ last.op = "forceRemoveUser"
  /\ out = <<>>
  /\ currentRoom[last.sock] \in Registered
  /\ ~IsScrumMaster(last.sock)
  /\ \E t \in Members(currentRoom[last.sock]) :
       /\ ~Carried(currentRoom[last.sock], t)
       /\ Has(RoomOf(currentRoom[last.sock]).disconnectTimers, t)

\* C9: forceRemoveUser on a target carried by a live socket of the room
\* changes nothing and emits nothing, even from a Scrum Master.
C9_ConnectedTargetNoOp ==
  [][\A s \in Sockets, t \in Nicknames :
       (forceRemoveUser(s, t) /\ currentRoom[s] # Null /\ Carried(currentRoom[s], t))
         => (RoomStateUnchanged /\ out' = <<>>)]_vars

\* a Scrum Master has just asked for a removal in a room where every
\* nickname is a connected participant
C9_Witness ==
  /\ last.op = "forceRemoveUser"
  /\ out = <<>>
  /\ IsScrumMaster(last.sock)
  /\ \A t \in Nicknames :
       t \in Members(currentRoom[last.sock]) /\ Carried(currentRoom[last.sock], t)

\* C10: a successful forceRemoveUser purges the target, clears and deletes
\* its pending timer (which never fires) and emits one participantsUpdate and
\* one userLeft.
C10_ForceRemovePurges ==
  [][/\ ClearedStaysCleared
     /\ \A s \in Sockets, t \in Nicknames :
          (/\ forceRemoveUser(s, t)
           /\ IsScrumMaster(s)
           /\ t \in Members(currentRoom[s])
           /\ ~Carried(currentRoom[s], t))
          => LET r == currentRoom[s]
                 R == objs'[rooms'[r]]
             IN  /\ rooms'[r] = rooms[r]
                 /\ Purged(R, t)
                 /\ ~Has(R.disconnectTimers, t)
                 /\ \A h \in Sockets :
                      (timerObj[h] = rooms[r] /\ nickname[h] = t) => timer'[h] # "pending"
                 /\ \A h \in Sockets :
                      Includes(queue', h) => (timerObj'[h] # rooms[r] \/ nickname'[h] # t)
                 /\ RemovalBroadcast(out', r, t)]_vars

\* a Scrum Master has just removed a disconnected participant whose grace
\* timer was running
C10_Witness ==
  /\ last.op = "forceRemoveUser"
  /\ Len(out) = 2
  /\ out[2].ev = "userLeft"
  /\ \E h \in Sockets : timer[h] = "cancelled"

\* ------------------------------------------------------------- reveal
RevealNames == {pr[1] : pr \in RevealProfiles}

\* socket s asks for a reveal in a room that exists
Reveals(s) ==
  revealVotes(s) /\ currentRoom[s] # Null /\ rooms[currentRoom[s]] # NoObj

\* the voters, the frequency object and the summary revealVotes computes for
\* the room registered under id r
VotersOf(r) ==
  ValidVoters(ConnectedDevelopers(status, srooms, nickname, r, RoomOf(r)), RoomOf(r).votes)

FreqOf(r) == Tally(VotersOf(r), RoomOf(r).votes, EmptyFreq)

SummaryOf(r) == Summary(status, srooms, nickname, r, RoomOf(r))

\* n has a vote that is neither null, undefined nor the empty string
CastVote(R, n) == Has(R.votes, n) /\ R.votes[n] # Null /\ R.votes[n] # ""

\* every vote summary sent by the handler carries the summary sum
SummariesCarry(msgs, sum) ==
  \A j \in 2..Len(msgs) : msgs[j].ev = "teamChat" /\ msgs[j].arg.summary = sum

\* C11: at revealVotes the vote list and the tally hold only nicknames that
\* are Developers, are carried by a live socket of the room and have a vote
\* that is neither null, undefined nor empty; a Developer with a vote but no
\* connected transport is in neither.
C11_OnlyConnectedDevelopers ==
  [][\A s \in Sockets :
       Reveals(s) =>
         LET r   == currentRoom[s]
             R   == RoomOf(r)
             sum == SummaryOf(r)
             listed == {sum.votes[i].name : i \in 1..Len(sum.votes)}
         IN  /\ \A n \in listed :
                  HoldsRole(R, n, "Developer") /\ Carried(r, n) /\ CastVote(R, n)
             /\ \A n \in RevealNames :
                  (HoldsRole(R, n, "Developer") /\ CastVote(R, n) /\ ~Carried(r, n))
                    => n \notin listed
             /\ \A p \in DOMAIN FreqOf(r).count :
                  \E n \in listed : ~IsNaN(R.votes[n]) /\ NumberOf[R.votes[n]] = p
             /\ \A k \in 1..Len(sum.consensus) :
                  \E n \in listed : ~IsNaN(R.votes[n]) /\ NumberOf[R.votes[n]] = sum.consensus[k]
             /\ SummariesCarry(out', sum)]_vars

\* a reveal has just run while one Developer with a cast vote had no
\* connected transport and another one was connected
C11_Witness ==
  /\ last.op = "revealVotes"
  /\ Len(out) >= 1
  /\ \E n, m \in RevealNames :
       LET r == out[1].room
           R == RoomOf(r)
       IN  /\ HoldsRole(R, n, "Developer") /\ CastVote(R, n) /\ ~Carried(r, n)
           /\ HoldsRole(R, m, "Developer") /\ CastVote(R, m) /\ Carried(r, m)
           /\ SummaryOf(r).votes # <<>>

\* the numbers whose count in freq is the highest
MostFrequent(freq) ==
  {p \in DOMAIN freq.count : \A q \in DOMAIN freq.count : freq.count[q] <= freq.count[p]}

\* C12: the consensus list holds exactly the values that tie for the highest
\* frequency, in ascending numeric order, whatever the vote values.
C12_TiesAscending ==
  [][\A s \in Sockets :
       Reveals(s) =>
         LET c == SummaryOf(currentRoom[s]).consensus
         IN  /\ {c[i] : i \in 1..Len(c)} = MostFrequent(FreqOf(currentRoom[s]))
             /\ \A i, j \in 1..Len(c) : i < j => c[i] < c[j]]_vars

\* no live socket of room r carries a Developer with a cast vote
NoValidVoter(r) ==
  \A n \in RevealNames :
    ~(HoldsRole(RoomOf(r), n, "Developer") /\ CastVote(RoomOf(r), n) /\ Carried(r, n))

\* C13: with no valid voter revealVotes computes an empty consensus and an
\* empty vote list, and still emits the revealVotes broadcast.
C13_NoVoterEmptySummary ==
  [][\A s \in Sockets :
       (Reveals(s) /\ NoValidVoter(currentRoom[s]))
         => /\ SummaryOf(currentRoom[s]).consensus = <<>>
            /\ SummaryOf(currentRoom[s]).votes = <<>>
            /\ Len(out') >= 1
            /\ out'[1] = Msg("io", "revealVotes", currentRoom[s],
                             [story |-> RoomOf(currentRoom[s]).currentStory])
            /\ SummariesCarry(out', SummaryOf(currentRoom[s]))]_vars

\* a Scrum Master has just received an empty summary while a connected
\* Developer had no vote or an empty one
C13_Witness ==
  /\ last.op = "revealVotes"
  /\ Len(out) >= 2
  /\ out[1].ev = "revealVotes"
  /\ out[2].arg.summary.consensus = <<>>
  /\ out[2].arg.summary.votes = <<>>
  /\ \E n \in RevealNames :
       /\ HoldsRole(RoomOf(out[1].room), n, "Developer")
       /\ Carried(out[1].room, n)
       /\ ~CastVote(RoomOf(out[1].room), n)

\* C14: a valid voter whose vote is not a number adds nothing to the
\* frequency count and is never in consensus, but is in the vote list with
\* its raw vote.
C14_NonNumericListedNotCounted ==
  [][\A s \in Sockets :
       Reveals(s) =>
         LET r   == currentRoom[s]
             R   == RoomOf(r)
             sum == SummaryOf(r)
             numeric(p) == {i \in 1..Len(sum.votes) :
                              ~IsNaN(sum.votes[i].point) /\ NumberOf[sum.votes[i].point] = p}
         IN  /\ \A n \in RevealNames :
                  (/\ HoldsRole(R, n, "Developer") /\ Carried(r, n)
                   /\ CastVote(R, n) /\ IsNaN(R.votes[n]))
                  => \E i \in 1..Len(sum.votes) :
                       sum.votes[i] = [name |-> n, avatar |-> R.avatars[n],
                                       point |-> R.votes[n]]
             /\ \A p \in DOMAIN FreqOf(r).count :
                  FreqOf(r).count[p] = Cardinality(numeric(p))
             /\ \A k \in 1..Len(sum.consensus) : numeric(sum.consensus[k]) # {}
             /\ SummariesCarry(out', sum)]_vars

\* a Scrum Master has just received a summary that lists a vote '?' and has
\* no consensus value
C14_Witness ==
  /\ last.op = "revealVotes"
  /\ Len(out) >= 2
  /\ \E i \in 1..Len(out[2].arg.summary.votes) : out[2].arg.summary.votes[i].point = "?"
  /\ out[2].arg.summary.consensus = <<>>

\* ------------------------------------------------------------- session
\* C15: startSession on an existing room sets the vote of every participant
\* to null, leaves no vote entry for anyone else, sets currentStory to the
\* title, leaves participants, roles, avatars and moods as they were and
\* broadcasts startSession with the title.
C15_StartSessionResetsVotes ==
  [][\A s \in Sockets, title \in Titles, room \in RoomIds :
       (startSession(s, title, room) /\ rooms[room] # NoObj)
         => LET R  == RoomOf(room)
                Rn == objs'[rooms'[room]]
            IN  /\ rooms' = rooms
                /\ DOMAIN Rn.votes = Elems(R.participants)
                /\ \A p \in DOMAIN Rn.votes : Rn.votes[p] = Null
                /\ Rn.currentStory = title
                /\ Rn.participants = R.participants
                /\ Rn.roles = R.roles /\ Rn.avatars = R.avatars /\ Rn.moods = R.moods
                /\ out' = << Msg("io", "startSession", room, title) >>]_vars

\* a session has just started in a room with participants: every vote is
\* null, nobody else has an entry, and the story is the broadcast title
C15_Witness ==
  /\ last.op = "startSession"
  /\ Len(out) = 1
  /\ out[1].ev = "startSession"
  /\ Members(out[1].room) # {}
  /\ DOMAIN RoomOf(out[1].room).votes = Members(out[1].room)
  /\ RoomOf(out[1].room).currentStory = out[1].arg

\* C16: a vote naming a nickname that is not a participant of the room is a
\* silent no-op: no votes entry is added, no room state changes, nothing is
\* emitted.
C16_StrangerVoteNoOp ==
  [][\A s \in Sockets, name \in Nicknames, point \in Points :
       (/\ vote(s, name, point)
        /\ currentRoom[s] # Null
        /\ rooms[currentRoom[s]] # NoObj
        /\ name \notin Members(currentRoom[s]))
       => (objs' = objs /\ rooms' = rooms /\ out' = <<>>)]_vars

\* ---------------------------------------------------------- membership
NoDuplicate(seq) == \A i, j \in 1..Len(seq) : seq[i] = seq[j] => i = j

\* the nicknames kept from P keep their relative order in Q, and the
\* nicknames new in Q come after them
OrderKept(P, Q) ==
  Q = SelectSeq(P, LAMBDA x : Includes(Q, x)) \o SelectSeq(Q, LAMBDA x : ~Includes(P, x))

\* C17: every join leaves the nickname in participants exactly once, with a
\* null vote and the supplied role, avatar, mood and device; participants
\* never holds a nickname twice, and the nicknames that remain keep their
\* join order: a step only drops nicknames or appends the one that joins.
C17_JoinOnceInOrder ==
  [][/\ \A r \in RoomIds : rooms'[r] # NoObj => NoDuplicate(objs'[rooms'[r]].participants)
     /\ \A r \in RoomIds :
          (rooms[r] # NoObj /\ rooms'[r] # NoObj)
            => /\ rooms'[r] = rooms[r]
               /\ OrderKept(RoomOf(r).participants, objs'[rooms'[r]].participants)
     /\ \A s \in Sockets, n \in Nicknames, r \in RoomIds, role \in Roles,
           avatar \in Avatars, emoji \in Emojis, device \in Devices :
          join(s, n, r, role, avatar, emoji, device)
            => /\ rooms'[r] # NoObj
               /\ LET Rn == objs'[rooms'[r]]
                  IN  /\ Cardinality({i \in 1..Len(Rn.participants) :
                                        Rn.participants[i] = n}) = 1
                      /\ Has(Rn.votes, n) /\ Rn.votes[n] = Null
                      /\ Has(Rn.roles, n) /\ Rn.roles[n] = role
                      /\ Has(Rn.avatars, n) /\ Rn.avatars[n] = avatar
                      /\ Has(Rn.moods, n) /\ Rn.moods[n] = emoji
                      /\ Has(Rn.devices, n) /\ Rn.devices[n] = device
                      /\ (rooms[r] = NoObj => Rn.participants = <<n>>)
                      /\ (rooms[r] # NoObj /\ n \notin Members(r))
                           => Rn.participants = Append(RoomOf(r).participants, n)]_vars

\* the first of two participants has just joined again and is still first
C17_Witness ==
  /\ last.op = "join"
  /\ currentRoom[last.sock] \in Registered
  /\ Len(RoomOf(currentRoom[last.sock]).participants) = 2
  /\ RoomOf(currentRoom[last.sock]).participants[1] = nickname[last.sock]

\* a live socket that joined room r as n and has logged out of it
LoggedOut(h, n, r) ==
  status[h] = "live" /\ nickname[h] = n /\ currentRoom[h] = r /\ r \notin srooms[h]

\* C18: once N has been removed from a room (here by the logout of a socket
\* that is still open) and has not joined again, no userLeft for N is emitted
\* into the room and no pending-removal timer for N is created in it.
C18_RemovedStaysSilent ==
  [][\A r \in RoomIds, n \in Nicknames :
       (/\ r \in Registered
        /\ n \notin Members(r)
        /\ \E h \in Sockets : LoggedOut(h, n, r)
        /\ ~\E s \in Sockets, role \in Roles, avatar \in Avatars, emoji \in Emojis,
              device \in Devices : join(s, n, r, role, avatar, emoji, device))
       => /\ \A i \in 1..Len(out') :
               ~(out'[i].ev = "userLeft" /\ out'[i].room = r /\ out'[i].arg = n)
          /\ rooms'[r] # NoObj
               => (Has(objs'[rooms'[r]].disconnectTimers, n)
                     => Has(RoomOf(r).disconnectTimers, n))]_vars

\* C19: right after the transport of participant N closes, N having no other
\* live socket in the room, N is still a participant with role, avatar, mood
\* and vote unchanged, the participantsUpdate lists N in names and not in
\* connected, and a pending-removal timer for N exists.
C19_DisconnectKeepsParticipant ==
  [][\A s \in Sockets :
       (/\ disconnect(s)
        /\ currentRoom[s] # Null
        /\ rooms[currentRoom[s]] # NoObj
        /\ nickname[s] \in Members(currentRoom[s])
        /\ ~\E x \in Sockets \ {s} :
              status[x] = "live" /\ currentRoom[s] \in srooms[x] /\ nickname[x] = nickname[s])
       => LET r  == currentRoom[s]
              n  == nickname[s]
              R  == RoomOf(r)
              Rn == objs'[rooms'[r]]
          IN  /\ rooms' = rooms
              /\ Rn.participants = R.participants
              /\ Rn.roles = R.roles /\ Rn.avatars = R.avatars
              /\ Rn.moods = R.moods /\ Rn.votes = R.votes
              /\ Len(out') >= 1
              /\ out'[1].ev = "participantsUpdate" /\ out'[1].room = r
              /\ Includes(out'[1].arg.names, n)
              /\ ~Includes(out'[1].arg.connected, n)
              /\ Has(Rn.disconnectTimers, n)
              /\ timer'[Rn.disconnectTimers[n]] = "pending"]_vars

\* the only socket of a participant that has a vote has just closed
C19_Witness ==
  /\ last.op = "disconnect"
  /\ Len(out) = 2
  /\ timer[last.sock] = "pending"
  /\ nickname[last.sock] \in Members(out[1].room)
  /\ CastVote(RoomOf(out[1].room), nickname[last.sock])
  /\ ~Carried(out[1].room, nickname[last.sock])

\* C20: at most one pending-removal timer is live per room id and nickname,
\* also after the room has been deleted and created again under the same id.
C20_OneTimerPerNickname ==
  \A h, k \in Sockets :
    (/\ timer[h] = "pending" /\ timer[k] = "pending"
     /\ currentRoom[h] = currentRoom[k]
     /\ nickname[h] = nickname[k])
    => h = k

\* ------------------------------------------------------------- typing
\* the typing timer at the head of the queue fires
Expires(e) == tqueue # <<>> /\ e = Head(tqueue) /\ typingTimer

\* nickname n has typed in room object o since, and that timer is still pending
TypedSince(n, o) == \E i \in 2..Len(tqueue) : tqueue[i].by = n /\ tqueue[i].obj = o

\* C21: when N typed and has not typed again, the firing of the 3-second
\* timer leaves N out of the room's typing set and sends a typingUpdate to the
\* room that does not list N.
C21_TypingExpires ==
  [][\A s \in Sockets, o \in ObjIds, n \in Nicknames, r \in RoomIds :
       (Expires([sock |-> s, obj |-> o, by |-> n, room |-> r]) /\ ~TypedSince(n, o))
         => /\ o \in DOMAIN objs' => ~Includes(objs'[o].typing, n)
            /\ Len(out') = 1
            /\ out'[1].ev = "typingUpdate"
            /\ out'[1].room = r
            /\ ~Includes(out'[1].arg, n)]_vars

\* C22: a nickname leaves the typing set only when 3 seconds have passed
\* since its last userTyping: a timer that fires while a later userTyping of
\* N is still within its 3 seconds does not remove N.
C22_TypingExtended ==
  [][\A s \in Sockets, o \in ObjIds, n \in Nicknames, r \in RoomIds :
       (Expires([sock |-> s, obj |-> o, by |-> n, room |-> r]) /\ TypedSince(n, o))
         => (o \in DOMAIN objs' /\ Includes(objs'[o].typing, n))]_vars

\* -------------------------------------------------------- termination
\* C23: endPointingSession deletes the room only for a requester whose
\* nickname holds the role Scrum Master in it; from any other socket it
\* changes nothing and emits nothing.
C23_OnlyScrumMasterTerminates ==
  [][\A s \in Sockets :
       (endPointingSession(s) /\ ~IsScrumMaster(s))
         => (RoomStateUnchanged /\ out' = <<>>)]_vars

\* the pending grace timer of socket h was armed in a room that was deleted
\* while it still had participants (which only endPointingSession does), and
\* a room is now registered under the same id
ArmedInTerminatedRoom(h) ==
  /\ timer[h] = "pending"
  /\ currentRoom[h] \in Registered
  /\ timerObj[h] # rooms[currentRoom[h]]
  /\ Includes(objs[timerObj[h]].participants, nickname[h])

\* C24: endPointingSession removes the room from the registry and nothing of
\* it is retained: a grace timer armed in the deleted room neither changes
\* nor emits into a room created later under the same id.
C24_TerminatedRoomRetainsNothing ==
  [][/\ \A s \in Sockets :
          (endPointingSession(s) /\ currentRoom[s] # Null)
            => rooms'[currentRoom[s]] = NoObj
     /\ \A h \in Sockets :
          (graceTimer(h) /\ ArmedInTerminatedRoom(h))
            => /\ out' = <<>>
               /\ rooms' = rooms
               /\ objs'[rooms[currentRoom[h]]] = RoomOf(currentRoom[h])]_vars

\* -------------------------------------------------------- private summary
\* the sockets a handler's messages msgs deliver a vote summary to
SummaryRecipients(msgs) ==
  {msgs[j].arg.to : j \in {i \in 1..Len(msgs) : msgs[i].via = "direct"}}

\* the live sockets subscribed to room r whose nickname holds the role
\* Scrum Master in it
ScrumMasterSockets(r) ==
  {x \in Sockets : /\ status[x] = "live"
                   /\ r \in srooms[x]
                   /\ HoldsRole(RoomOf(r), nickname[x], "Scrum Master")}

\* C25: at revealVotes the vote summary goes to every live socket of the
\* room whose nickname holds the role Scrum Master, and to no other socket.
C25_SummaryToEveryScrumMaster ==
  [][\A s \in Sockets :
       Reveals(s) => SummaryRecipients(out') = ScrumMasterSockets(currentRoom[s])]_vars

\* ------------------------------------------------------------- rooms
\* the room the socket of the step's event acts in: the room it joins, or
\* the room it has joined
ActingRoom ==
  IF last'.op = "join" THEN currentRoom'[last'.sock] ELSE currentRoom[last'.sock]

\* C26: an event handled for a socket acting in one room never changes the
\* state of another room (here: of a room the socket is not subscribed to).
C26_ConfinedToOwnRoom ==
  [][\A B \in RoomIds :
       (/\ last'.op \notin {"graceTimer", "typingTimer"}
        /\ ActingRoom \in RoomIds
        /\ B # ActingRoom
        /\ B \notin srooms[last'.sock])
         => /\ rooms'[B] = rooms[B]
            /\ rooms[B] # NoObj => objs'[rooms[B]] = RoomOf(B)]_vars

\* -------------------------------------------------------- end of session
\* C27: endSession on an existing room empties votes and currentStory,
\* leaves participants, roles, avatars, moods, devices and the pending
\* timers as they were and emits sessionEnded; when the socket's room does
\* not exist it does nothing.
C27_EndSessionClears ==
  [][\A s \in Sockets :
       endSession(s)
         => IF currentRoom[s] # Null /\ rooms[currentRoom[s]] # NoObj
              THEN LET r  == currentRoom[s]
                       R  == RoomOf(r)
                       Rn == objs'[rooms'[r]]
                   IN  /\ rooms' = rooms
                       /\ Rn.votes = EmptyMap
                       /\ Rn.currentStory = ""
                       /\ Rn.participants = R.participants
                       /\ Rn.roles = R.roles /\ Rn.avatars = R.avatars
                       /\ Rn.moods = R.moods /\ Rn.devices = R.devices
                       /\ Rn.disconnectTimers = R.disconnectTimers
                       /\ Rn.typing = R.typing
                       /\ timer' = timer /\ queue' = queue /\ tqueue' = tqueue
                       /\ out' = << Msg("io", "sessionEnded", r, Null) >>
              ELSE RoomStateUnchanged /\ out' = <<>>]_vars

\* a session has just been ended in a room whose votes were emptied, while a
\* disconnected participant's grace timer was pending
C27_Witness ==
  /\ last.op = "endSession"
  /\ Len(out) = 1
  /\ out[1].ev = "sessionEnded"
  /\ RoomOf(out[1].room).votes = EmptyMap
  /\ RoomOf(out[1].room).currentStory = ""
  /\ \E n \in Members(out[1].room) : Has(RoomOf(out[1].room).disconnectTimers, n)
  /\ \E h \in Sockets : timer[h] = "pending"

\* ------------------------------------------------------------------ relays
\* no room record, registration, subscription or timer changes
NothingMutated == RoomStateUnchanged /\ UNCHANGED <<tqueue, rejoined>>

\* C28: teamChat, emojiReaction and revealVotes never change room state;
\* teamChat with an empty or missing text emits nothing, and teamChat with
\* a non-empty text emits exactly {sender, text} to the sender's room.
C28_RelaysDoNotMutate ==
  [][/\ \A s \in Sockets : revealVotes(s) => NothingMutated
     /\ \A s \in Sockets, sender \in Nicknames, emoji \in Emojis :
          emojiReaction(s, sender, emoji) => NothingMutated
     /\ \A s \in Sockets, sender \in Nicknames, text \in Texts :
          teamChat(s, sender, text)
            => /\ NothingMutated
               /\ text \in {"", Undefined} => out' = <<>>
               /\ (text \notin {"", Undefined} /\ currentRoom[s] \in RoomIds)
                    => out' = << Msg("io", "teamChat", currentRoom[s],
                                     [sender |-> sender, text |-> text]) >>]_vars

\* a chat message has just been relayed to a room with participants
C28_Witness ==
  /\ last.op = "teamChat"
  /\ Len(out) = 1
  /\ out[1].ev = "teamChat"
  /\ out[1].arg.text = "hi"
  /\ out[1].room \in Registered
  /\ Members(out[1].room) # {}

\* C29: an inbound haifetti event from a socket that is in a room is answered
\* by one haifetti broadcast to that room, and no room state changes.
C29_HaifettiRelayed ==
  [][\A s \in Sockets :
       (/\ haifetti(s)
        /\ currentRoom[s] \in Registered
        /\ currentRoom[s] \in srooms[s])
         => /\ NothingMutated
            /\ Len(out') = 1
            /\ out'[1].ev = "haifetti"
            /\ out'[1].room = currentRoom[s]]_vars

\* ------------------------------------------- 20-minute grace period variant
\* C30: in the 20-minute variant a grace timer that fires while its nickname
\* has a connected socket in the room leaves the nickname in participants.
C30_ConnectedSurvivesTimer20 ==
  [][\A s \in Sockets :
       (/\ graceTimer20(s)
        /\ nickname[s] \in Members(currentRoom[s])
        /\ IsStillConnected(status, srooms, nickname, currentRoom[s], nickname[s]))
         => nickname[s] \in MembersNext(currentRoom[s])]_vars

\* ------------------------------------------------------------ after logout
\* the events of a socket other than join that act on its room
RoomEvents ==
  {"vote", "updateMood", "endSession", "endPointingSession", "userTyping",
   "forceRemoveUser", "disconnect"}

\* C31: once a socket has logged out of room r (it is open, r is still its
\* room and it is no longer subscribed to r), its later events other than a
\* join neither change r's state, nor arm a timer, nor emit into r.
C31_LoggedOutIsInert ==
  [][\A s \in Sockets, r \in RoomIds :
       (/\ status[s] = "live"
        /\ currentRoom[s] = r
        /\ r \notin srooms[s]
        /\ last'.sock = s
        /\ last'.op \in RoomEvents)
         => /\ rooms'[r] = rooms[r]
            /\ r \in Registered => objs'[rooms'[r]] = RoomOf(r)
            /\ timer'[s] # "pending"
            /\ tqueue' = tqueue
            /\ \A i \in 1..Len(out') : out'[i].room # r]_vars

\* ------------------------------------------------- one vote per nickname
\* the nicknames of the room record R whose vote counts as the number p
VotedFor(R, p) ==
  {n \in DOMAIN R.votes : CastVote(R, n) /\ ~IsNaN(R.votes[n]) /\ NumberOf[R.votes[n]] = p}

\* C32: at revealVotes no nickname is listed twice in voteList and every
\* number is counted at most once per nickname that voted for it, also when
\* several live sockets of the room carry the same nickname.
C32_OneVotePerNickname ==
  [][\A s \in Sockets :
       Reveals(s) =>
         LET r   == currentRoom[s]
             sum == SummaryOf(r)
         IN  /\ NoDuplicate([i \in 1..Len(sum.votes) |-> sum.votes[i].name])
             /\ \A p \in DOMAIN FreqOf(r).count :
                  FreqOf(r).count[p] <= Cardinality(VotedFor(RoomOf(r), p))]_vars

\* ------------------------------------------------ broadcasts and registry
\* message m carries the participants, roles, avatars, moods and devices of
\* room record R
CarriesStateOf(m, R) ==
  /\ m.arg.names = R.participants
  /\ m.arg.roles = R.roles
  /\ m.arg.avatars = R.avatars
  /\ m.arg.moods = R.moods
  /\ m.arg.devices = R.devices

\* the step is a logout that broadcast and then deleted the emptied room r
LogoutDeleted(r) == last'.op = "logout" /\ rooms[r] # NoObj /\ rooms'[r] = NoObj

\* C33: every participantsUpdate sent to room id r carries the state of the
\* room registered under r when it is sent, never that of a room object that
\* is no longer in the registry.
C33_BroadcastOfRegisteredRoom ==
  [][\A i \in 1..Len(out') :
       (out'[i].ev = "participantsUpdate" /\ ~LogoutDeleted(out'[i].room))
         => /\ rooms'[out'[i].room] # NoObj
            /\ CarriesStateOf(out'[i], objs'[rooms'[out'[i].room]])]_vars

\* C34: in every participantsUpdate each nickname of the connected list is
\* also in names, the room's participants.
C34_ConnectedAreParticipants ==
  [][\A i \in 1..Len(out') :
       out'[i].ev = "participantsUpdate"
         => \A k \in 1..Len(out'[i].arg.connected) :
              Includes(out'[i].arg.names, out'[i].arg.connected[k])]_vars

\* ------------------------------------------------------- typing, liveness
\* room object o lists nickname n as typing
TypingHas(o, n) == o \in DOMAIN objs /\ Includes(objs[o].typing, n)

\* C35: with typing timers that fire, a nickname added to a room's typing
\* set is eventually removed from it, also when the typing socket joins again
\* under another nickname before its timer fires.
C35_TypingEventuallyCleared ==
  \A o \in ObjIds, n \in Nicknames : TypingHas(o, n) ~> ~TypingHas(o, n)
====
